---- MODULE Spec2Model ----
(***************************************************************************)
(* A model of the vscode-ssh extension: the launch command (config         *)
(* location, host parsing, picker, terminal), the config opener, the       *)
(* completion provider's options cache, and the path helpers.              *)
(*                                                                         *)
(* Two revisions of the extension are modelled side by side:               *)
(*   "extension" : src/src/extension.ts (single root, terminal.onData)     *)
(*   "multi"     : src/unnamed/part_001, lines 56-230 (workspace folders)  *)
(*                                                                         *)
(* Paths are sequences of path components; an absolute path is rendered    *)
(* with a leading "/".  Text is a sequence of lexemes: the keyword "Host", *)
(* single characters, " " and "\n".                                        *)
(***************************************************************************)
EXTENDS Integers, Sequences, FiniteSets, TLC

VARIABLES
    rev,        \* which revision of the extension runs
    env,        \* process.env: HOME, HOMEPATH, USERPROFILE
    folders,    \* workspace.workspaceFolders: sequence of [name, fsPath]
    fs,         \* file system: config file -> "present" | "missing" | "denied"
    pc,         \* position of the launch invocation
    locs,       \* launch's configLocations array
    load,       \* per config location: position of its loadHosts promise
    observed,   \* per config location: the file statuses lstat and open met
    res,        \* per config location: the hosts its loadHosts resolved with
    settled,    \* config locations in the order their loadHosts promises settled
    picker,     \* the list handed to window.showQuickPick
    picked,     \* the host the picker resolved with (or NoHost)
    terminals,  \* terminals created by window.createTerminal
    logged,     \* launch invocations whose error console.error logged
    unhandled,  \* launch invocations whose rejection nobody handled
    launches,   \* number of launch invocations started
    oc,         \* the config opener's invocation
    docs,       \* documents shown by window.showTextDocument
    messages,   \* informational messages shown
    options,    \* the module-level options promise
    reads,      \* number of readFile calls on options.json
    table,      \* the value the options promise resolved with
    requests,   \* completion requests: sequence of records
    text,       \* host parser input
    hosts,      \* host parser output
    spIn,       \* path shortener input
    spOut       \* path shortener output

vars == << rev, env, folders, fs, pc, locs, load, observed, res, settled, picker, picked,
           terminals, logged, unhandled, launches, oc, docs, messages,
           options, reads, table, requests, text, hosts, spIn, spOut >>

launchVars == << pc, locs, load, observed, res, settled, picker, picked, terminals, logged,
                 unhandled, launches >>
openVars   == << oc, docs, messages >>
complVars  == << options, reads, table, requests >>
parseVars  == << text, hosts >>
pathVars   == << spIn, spOut >>
worldVars  == << rev, env, folders >>
fsVars     == << fs >>

(***************************************************************************)
(* Bounds of the model.                                                    *)
(***************************************************************************)
MaxLaunches == 1   \* launch invocations in one behaviour
MaxData     == 2   \* terminal data events counted per terminal
MaxOpens    == 2   \* config opener invocations in one behaviour
MaxRequests == 3   \* completion requests in one behaviour
MaxLen      == 5   \* lexemes in a parsed config text
MaxPrefix   == 3   \* characters before the cursor in a completion request

(***************************************************************************)
(* Generic helpers.                                                        *)
(***************************************************************************)
Undefined == << "<undefined>" >>
IsSet(v)  == v # Undefined

RECURSIVE SeqsUpTo(_, _)
SeqsUpTo(S, n) ==
    IF n = 0 THEN { <<>> }
    ELSE LET shorter == SeqsUpTo(S, n - 1)
         IN  shorter \cup { Append(s, x) : s \in { t \in shorter : Len(t) = n - 1 }, x \in S }

RECURSIVE Concat(_)
Concat(ss) == IF ss = <<>> THEN <<>> ELSE Head(ss) \o Concat(Tail(ss))

Last(s) == s[Len(s)]
Front(s) == SubSeq(s, 1, Len(s) - 1)

(***************************************************************************)
(* Node's path module, on component sequences.                             *)
(***************************************************************************)
RECURSIVE Render(_)
Render(segs) ==
    IF segs = <<>> THEN ""
    ELSE IF Len(segs) = 1 THEN segs[1]
    ELSE segs[1] \o "/" \o Render(Tail(segs))

\* An absolute path as a string.
AbsStr(segs) == "/" \o Render(segs)

\* path.normalize of a relative path: "." dropped, "x/.." cancelled,
\* leading ".." kept.
RECURSIVE Normalize(_, _)
Normalize(done, rest) ==
    IF rest = <<>> THEN done
    ELSE LET c == Head(rest) IN
         IF c = "." THEN Normalize(done, Tail(rest))
         ELSE IF c = ".." /\ done # <<>> /\ Last(done) # ".."
              THEN Normalize(Front(done), Tail(rest))
         ELSE Normalize(Append(done, c), Tail(rest))

\* path.join(a, b): concatenate, then normalize.
join(a, b) == Normalize(<<>>, a \o b)

\* path.join rendered; an empty result is ".".
JoinStr(a, b) == IF join(a, b) = <<>> THEN "." ELSE Render(join(a, b))

RECURSIVE CommonPrefix(_, _)
CommonPrefix(a, b) ==
    IF a = <<>> \/ b = <<>> \/ Head(a) # Head(b) THEN 0
    ELSE 1 + CommonPrefix(Tail(a), Tail(b))

\* path.relative(from, to), both absolute: climb out of from, descend to to.
relative(from, to) ==
    LET k == CommonPrefix(from, to)
    IN  [ i \in 1 .. (Len(from) - k) |-> ".." ] \o SubSeq(to, k + 1, Len(to))

\* The first shortest string of a non-empty list:
\* options.reduce((min, path) => min.length <= path.length ? min : path).
RECURSIVE ReduceMin(_, _)
ReduceMin(min, rest) ==
    IF rest = <<>> THEN min
    ELSE ReduceMin(IF Len(min) <= Len(Head(rest)) THEN min ELSE Head(rest), Tail(rest))

(***************************************************************************)
(* Config Locator.                                                         *)
(***************************************************************************)
\* userHome = process.env.HOME || process.env.HOMEPATH || process.env.USERPROFILE
\* in "multi"; process.env.HOME alone in "extension".
userHome ==
    IF rev = "multi"
    THEN IF IsSet(env.HOME) THEN env.HOME
         ELSE IF IsSet(env.HOMEPATH) THEN env.HOMEPATH
         ELSE env.USERPROFILE
    ELSE env.HOME

\* userConfig = userHome && join(userHome, '.ssh/config')
userConfig ==
    IF IsSet(userHome) THEN join(userHome, << ".ssh", "config" >>) ELSE Undefined

\* workspaceConfigPath(folderPath) = join(folderPath, '.vscode/ssh.config')
workspaceConfigPath(folderPath) == join(folderPath, << ".vscode", "ssh.config" >>)

\* workspace.rootPath: the first workspace folder's path, if any.
rootPath == IF folders = <<>> THEN Undefined ELSE folders[1].fsPath

\* The workspace folders a revision looks at: every folder in "multi", the
\* root path alone in "extension".
SeenFolders == IF rev = "multi" THEN folders ELSE SubSeq(folders, 1, IF folders = <<>> THEN 0 ELSE 1)

\* configLocations of launch: [folder |-> index into folders, 0 for none; file].
configLocations ==
    (IF IsSet(userConfig) THEN << [ folder |-> 0, file |-> userConfig ] >> ELSE <<>>)
    \o [ i \in 1 .. Len(SeenFolders) |->
            [ folder |-> i, file |-> workspaceConfigPath(SeenFolders[i].fsPath) ] ]

(***************************************************************************)
(* Path Shortener.                                                         *)
(***************************************************************************)
\* The home-relative candidate is offered when process.env.HOME is set.
HomeCandidate(path) ==
    IF IsSet(env.HOME) THEN << "~/" \o Render(relative(env.HOME, path)) >> ELSE <<>>

\* shortPath of "multi".
shortPath(path) ==
    ReduceMin(AbsStr(path),
              HomeCandidate(path)
              \o [ i \in 1 .. Len(folders) |->
                     JoinStr(<< folders[i].name >>, relative(folders[i].fsPath, path)) ])

\* relativize of "extension".
relativize(path) ==
    ReduceMin(AbsStr(path),
              HomeCandidate(path)
              \o (IF IsSet(rootPath) THEN << Render(relative(rootPath, path)) >> ELSE <<>>))

Shorten(path) == IF rev = "multi" THEN shortPath(path) ELSE relativize(path)

(***************************************************************************)
(* Host Parser: /^Host\s+([^\s]+)/gm run with exec until it fails.         *)
(***************************************************************************)
\* \s
IsSpace(c) == c \in { " ", "\t", "\n" }

\* ^ in multiline mode: the start of the text or just after a line break.
LineStart(t, j) == j = 1 \/ t[j - 1] = "\n"

\* The end of the longest run of lexemes from k on that all satisfy (or all
\* fail) IsSpace, as the greedy \s+ and [^\s]+ consume it.
RECURSIVE RunEnd(_, _, _)
RunEnd(t, k, space) ==
    IF k < Len(t) /\ IsSpace(t[k + 1]) = space THEN RunEnd(t, k + 1, space) ELSE k

\* Whether the regular expression matches with its start at j.
MatchesAt(t, j) ==
    /\ j + 2 <= Len(t)
    /\ LineStart(t, j)
    /\ t[j] = "Host"
    /\ IsSpace(t[j + 1])
    /\ RunEnd(t, j + 1, TRUE) < Len(t)

\* r.exec(text) from lastIndex: the first start at or after lastIndex where
\* the expression matches, 0 when there is none.
Exec(t, lastIndex) ==
    LET starts == { j \in lastIndex .. Len(t) : MatchesAt(t, j) }
    IN  IF starts = {} THEN 0 ELSE CHOOSE j \in starts : \A k \in starts : j <= k

\* while (host = (r.exec(text) || [])[1]) hosts.push(...): the captured
\* tokens, in order; lastIndex moves past each match.
RECURSIVE ExecLoop(_, _, _)
ExecLoop(t, lastIndex, acc) ==
    LET j == Exec(t, lastIndex) IN
    IF j = 0 THEN acc
    ELSE LET from == RunEnd(t, j + 1, TRUE) + 1
             to   == RunEnd(t, from, FALSE)
         IN  ExecLoop(t, to + 1, Append(acc, SubSeq(t, from, to)))

ParseLabels(t) == ExecLoop(t, 1, <<>>)

\* A label as the string the terminal receives.
RECURSIVE LabelStr(_)
LabelStr(label) == IF label = <<>> THEN "" ELSE Head(label) \o LabelStr(Tail(label))

(***************************************************************************)
(* String.prototype.localeCompare on labels, as the default collation      *)
(* orders unaccented Latin letters: by letter first, then lower before     *)
(* upper case.                                                             *)
(***************************************************************************)
Collation == << <<"a", "A">>, <<"b", "B">>, <<"h", "H">>, <<"o", "O">>,
                <<"s", "S">>, <<"t", "T">>, <<"z", "Z">> >>

\* A lexeme's characters.
Chars(c) == IF c = "Host" THEN << "H", "o", "s", "t" >> ELSE << c >>

RECURSIVE LabelChars(_)
LabelChars(label) ==
    IF label = <<>> THEN <<>> ELSE Chars(Head(label)) \o LabelChars(Tail(label))

Primary(c)  == CHOOSE i \in 1 .. Len(Collation) : c \in { Collation[i][1], Collation[i][2] }
Tertiary(c) == IF c = Collation[Primary(c)][1] THEN 1 ELSE 2

\* Lexicographic comparison of two sequences of numbers: -1, 0 or 1.
RECURSIVE LexCompare(_, _)
LexCompare(a, b) ==
    IF a = <<>> /\ b = <<>> THEN 0
    ELSE IF a = <<>> THEN -1
    ELSE IF b = <<>> THEN 1
    ELSE IF Head(a) < Head(b) THEN -1
    ELSE IF Head(a) > Head(b) THEN 1
    ELSE LexCompare(Tail(a), Tail(b))

localeCompare(a, b) ==
    LET ca == LabelChars(a)
        cb == LabelChars(b)
        p  == LexCompare([ i \in 1 .. Len(ca) |-> Primary(ca[i]) ],
                         [ i \in 1 .. Len(cb) |-> Primary(cb[i]) ])
    IN  IF p # 0 THEN p
        ELSE LexCompare([ i \in 1 .. Len(ca) |-> Tertiary(ca[i]) ],
                        [ i \in 1 .. Len(cb) |-> Tertiary(cb[i]) ])

\* Array.prototype.sort with (a, b) => a.label.localeCompare(b.label): a
\* stable sort, here by insertion.
RECURSIVE Insert(_, _)
Insert(sorted, h) ==
    IF sorted = <<>> THEN << h >>
    ELSE IF localeCompare(Last(sorted).label, h.label) <= 0 THEN Append(sorted, h)
    ELSE Append(Insert(Front(sorted), h), Last(sorted))

RECURSIVE SortHosts(_)
SortHosts(hs) == IF hs = <<>> THEN <<>> ELSE Insert(SortHosts(Front(hs)), Last(hs))

(***************************************************************************)
(* The worlds the extension is run in.                                     *)
(***************************************************************************)
Revs == { "extension", "multi" }

NoEnv == [ HOME |-> Undefined, HOMEPATH |-> Undefined, USERPROFILE |-> Undefined ]

\* Home set the usual way, no home at all, and a home inside a workspace
\* folder's .vscode directory.
Envs == { [ NoEnv EXCEPT !.HOME = << "home", "u" >> ],
          NoEnv,
          [ NoEnv EXCEPT !.HOME = << "ws", "p", ".vscode" >> ] }

\* Folder "p" carries its directory's name, folder "w" a name of its own.
FolderP == [ name |-> "p", fsPath |-> << "ws", "p" >> ]
FolderW == [ name |-> "w", fsPath |-> << "ws", "q" >> ]

Workspaces == { <<>>, << FolderP >>, << FolderP, FolderW >> }

Status == { "present", "missing", "denied" }

Files == { configLocations[i].file : i \in 1 .. Len(configLocations) }

\* The text of each config file: the user's declares z and A (with a second
\* alias and an indented HostName line), the first folder's b and A, any
\* further folder's a.
ConfigText(loc) ==
    IF loc.folder = 0
    THEN << "Host", " ", "z", "\n", "\t", "Host", "N", " ", "a", "\n",
            "Host", " ", "A", " ", "b", "\n" >>
    ELSE IF loc.folder = 1
    THEN << "Host", " ", "b", "\n", "Host", "\t", "A" >>
    ELSE << "Host", " ", "a", "\n" >>

(***************************************************************************)
(* launch: loadHosts per config location, the picker, the terminal.        *)
(***************************************************************************)
NoHost == [ label |-> <<>>, description |-> "", config |-> [ folder |-> 0, file |-> Undefined ] ]

\* The then-callback of openTextDocument in loadHosts: one host per match.
loadHosts(loc) ==
    LET labels == ParseLabels(ConfigText(loc))
    IN  [ i \in 1 .. Len(labels) |->
            [ label |-> labels[i], description |-> Shorten(loc.file), config |-> loc ] ]

\* Aggregate gone wrong: results concatenated in the order they arrived.
AggregateAsSettled(results, order) ==
    Concat([ k \in 1 .. Len(order) |-> results[order[k]] ])

\* Promise.all keeps the order of its input, and reduce concatenates in it.
Aggregate(results, order) ==
    Concat([ i \in 1 .. Len(results) |-> results[i] ])

\* The text sendLaunch ("extension") or launch ("multi") sends.
sendLaunch(host) ==
    IF rev = "multi"
    THEN IF host.config.folder # 0
         THEN "ssh -F " \o JoinStr(<< "." >>, << ".vscode", "ssh.config" >>) \o " " \o LabelStr(host.label)
         ELSE "ssh " \o LabelStr(host.label)
    ELSE IF host.config.file # userConfig
         THEN "ssh -F " \o relativize(host.config.file) \o " " \o LabelStr(host.label)
         ELSE "ssh " \o LabelStr(host.label)

\* cwd: folder && folder.uri.fsPath ("multi"); createTerminal() without
\* options in "extension".
terminalCwd(host) ==
    IF rev = "multi" /\ host.config.folder # 0
    THEN folders[host.config.folder].fsPath
    ELSE Undefined

\* send gone wrong: the sent flag is not consulted.
sendUnguarded(t) ==
    [ t EXCEPT !.sent = TRUE, !.sendText = Append(@, sendLaunch(t.host)) ]

\* const send = () => { if (!sent) { sent = true; sendLaunch(terminal, host); } }
send(t) ==
    IF ~t.sent
    THEN [ t EXCEPT !.sent = TRUE, !.sendText = Append(@, sendLaunch(t.host)) ]
    ELSE t

\* A loadHosts promise rejected: Promise.all rejects with the first one.
\* "multi" returns the chain and catches it with console.error; "extension"
\* drops the chain, so nothing handles the rejection.
Reject ==
    IF pc = "loading"
    THEN /\ pc' = "failed"
         /\ logged' = IF rev = "multi" THEN logged \cup { launches } ELSE logged
         /\ unhandled' = IF rev = "multi" THEN unhandled ELSE unhandled \cup { launches }
    ELSE UNCHANGED << pc, logged, unhandled >>

Launch ==
    /\ pc \in { "idle", "done", "cancelled", "failed" }
    /\ launches < MaxLaunches
    /\ launches' = launches + 1
    /\ pc' = "loading"
    /\ locs' = configLocations
    /\ load' = [ i \in 1 .. Len(configLocations) |-> "lstat" ]
    /\ observed' = [ i \in 1 .. Len(configLocations) |-> <<>> ]
    /\ res' = [ i \in 1 .. Len(configLocations) |-> <<>> ]
    /\ settled' = <<>>
    /\ picker' = <<>>
    /\ picked' = NoHost
    /\ UNCHANGED << terminals, logged, unhandled >>
    /\ UNCHANGED << worldVars, fsVars, openVars, complVars, parseVars, pathVars >>

\* fileExists: the lstat callback.
fileExists(i) ==
    /\ i \in DOMAIN load
    /\ load[i] = "lstat"
    /\ observed' = [ observed EXCEPT ![i] = Append(@, fs[locs[i].file]) ]
    /\ LET st == fs[locs[i].file] IN
       \/ /\ st = "present"
          /\ load' = [ load EXCEPT ![i] = "open" ]
          /\ UNCHANGED << res, settled, pc, logged, unhandled >>
       \/ /\ st = "missing"
          /\ load' = [ load EXCEPT ![i] = "done" ]
          /\ settled' = Append(settled, i)
          /\ UNCHANGED << res, pc, logged, unhandled >>
       \/ /\ st = "denied"
          /\ load' = [ load EXCEPT ![i] = "rejected" ]
          /\ settled' = Append(settled, i)
          /\ Reject
          /\ UNCHANGED res
    /\ UNCHANGED << locs, picker, picked, terminals, launches >>
    /\ UNCHANGED << worldVars, fsVars, openVars, complVars, parseVars, pathVars >>

\* workspace.openTextDocument(Uri.file(file)) settles: the document's hosts,
\* or a rejection when the file cannot be opened.
openTextDocument(i) ==
    /\ i \in DOMAIN load
    /\ load[i] = "open"
    /\ observed' = [ observed EXCEPT ![i] = Append(@, fs[locs[i].file]) ]
    /\ settled' = Append(settled, i)
    /\ \/ /\ fs[locs[i].file] = "present"
          /\ load' = [ load EXCEPT ![i] = "done" ]
          /\ res' = [ res EXCEPT ![i] = loadHosts(locs[i]) ]
          /\ UNCHANGED << pc, logged, unhandled >>
       \/ /\ fs[locs[i].file] # "present"
          /\ load' = [ load EXCEPT ![i] = "rejected" ]
          /\ Reject
          /\ UNCHANGED res
    /\ UNCHANGED << locs, picker, picked, terminals, launches >>
    /\ UNCHANGED << worldVars, fsVars, openVars, complVars, parseVars, pathVars >>

\* Promise.all resolved: concatenate, sort, show the picker.
showQuickPick ==
    /\ pc = "loading"
    /\ \A i \in DOMAIN load : load[i] = "done"
    /\ picker' = SortHosts(Aggregate(res, settled))
    /\ pc' = "picker"
    /\ UNCHANGED << locs, load, observed, res, settled, picked, terminals, logged, unhandled, launches >>
    /\ UNCHANGED << worldVars, fsVars, openVars, complVars, parseVars, pathVars >>

\* The terminal the then-callback of showQuickPick sets up for a host.
\* onData tells whether the terminal offers onData.
createTerminal(host, onData) ==
    LET t == [ host |-> host, launch |-> launches, cwd |-> terminalCwd(host),
               shown |-> TRUE, onData |-> onData, sent |-> FALSE,
               timer |-> "none", data |-> 0, sendText |-> <<>> ]
    IN  IF rev = "multi" THEN [ t EXCEPT !.sendText = << sendLaunch(host) >> ]
        ELSE IF onData THEN [ t EXCEPT !.timer = "pending" ]
        ELSE [ t EXCEPT !.sendText = << sendLaunch(host) >> ]

\* onPicked gone wrong: the terminal is set up whatever the picker gave.
onPickedUnchecked(host, onData) ==
    Append(terminals, createTerminal(host, onData))

\* .then(host => { if (host) { ... } }): the terminals after the picker
\* resolved with host.
onPicked(host, onData) ==
    IF host # NoHost THEN Append(terminals, createTerminal(host, onData)) ELSE terminals

\* The picker resolves: with picker[k], or with no host (k = 0) when the
\* user cancels.
PickerResolved(k, onData) ==
    /\ pc = "picker"
    /\ k \in 0 .. Len(picker)
    /\ (rev = "multi" \/ k = 0) => ~onData
    /\ LET host == IF k = 0 THEN NoHost ELSE picker[k] IN
       /\ picked' = host
       /\ pc' = IF k = 0 THEN "cancelled" ELSE "done"
       /\ terminals' = onPicked(host, onData)
    /\ UNCHANGED << locs, load, observed, res, settled, picker, logged, unhandled, launches >>
    /\ UNCHANGED << worldVars, fsVars, openVars, complVars, parseVars, pathVars >>

\* The terminal emits data: the callback registered with onData runs.
TerminalData(n) ==
    /\ n \in 1 .. Len(terminals)
    /\ terminals[n].onData
    /\ terminals[n].data < MaxData
    /\ terminals' = [ terminals EXCEPT ![n] = [ send(@) EXCEPT !.data = @ + 1 ] ]
    /\ UNCHANGED << pc, locs, load, observed, res, settled, picker, picked, logged, unhandled, launches >>
    /\ UNCHANGED << worldVars, fsVars, openVars, complVars, parseVars, pathVars >>

\* setTimeout(send, 3000) fires.
Timeout(n) ==
    /\ n \in 1 .. Len(terminals)
    /\ terminals[n].timer = "pending"
    /\ terminals' = [ terminals EXCEPT ![n] = [ send(@) EXCEPT !.timer = "fired" ] ]
    /\ UNCHANGED << pc, locs, load, observed, res, settled, picker, picked, logged, unhandled, launches >>
    /\ UNCHANGED << worldVars, fsVars, openVars, complVars, parseVars, pathVars >>

\* Somebody else creates, deletes or locks away a config file.
FsChange(f, st) ==
    /\ f \in DOMAIN fs
    /\ st # fs[f]
    /\ fs' = [ fs EXCEPT ![f] = st ]
    /\ UNCHANGED << worldVars, launchVars, openVars, complVars, parseVars, pathVars >>

\* The parts of the state a specification does not use.
IdleLaunch ==
    /\ pc = "idle" /\ locs = <<>> /\ load = <<>> /\ observed = <<>> /\ res = <<>> /\ settled = <<>> /\ picker = <<>>
    /\ picked = NoHost /\ terminals = <<>> /\ logged = {} /\ unhandled = {} /\ launches = 0
NoOpen     == [ pc |-> "idle", cmd |-> "", file |-> Undefined, exists |-> FALSE,
                met |-> <<>>, caught |-> FALSE, n |-> 0 ]
IdleOpen   == oc = NoOpen /\ docs = <<>> /\ messages = 0
IdleCompl  == options = "unset" /\ reads = 0 /\ table = <<>> /\ requests = <<>>
IdleParse  == text = <<>> /\ hosts = [ done |-> FALSE, labels |-> <<>> ]
IdlePath   == spIn = <<>> /\ spOut = [ done |-> FALSE, str |-> "" ]

\* "extension" reads the root path alone: worlds that differ only in the
\* folders after the first are left out for it.
InitWorld ==
    /\ rev \in Revs
    /\ env \in Envs
    /\ folders \in Workspaces
    /\ rev = "extension" => Len(folders) <= 1
    /\ fs \in [ Files -> Status ]

Init ==
    /\ InitWorld
    /\ IdleLaunch /\ IdleOpen /\ IdleCompl /\ IdleParse /\ IdlePath

Next ==
    \/ Launch
    \/ \E i \in DOMAIN load : fileExists(i)
    \/ \E i \in DOMAIN load : openTextDocument(i)
    \/ showQuickPick
    \/ \E k \in 0 .. Len(picker), onData \in BOOLEAN : PickerResolved(k, onData)
    \/ \E n \in 1 .. Len(terminals) : TerminalData(n)
    \/ \E n \in 1 .. Len(terminals) : Timeout(n)
    \/ \E f \in DOMAIN fs, st \in Status : FsChange(f, st)

Spec == Init /\ [][Next]_vars

(***************************************************************************)
(* Config Opener: openUserConfig, openWorkspaceConfig, openConfig.         *)
(***************************************************************************)
OpenerAtRest == oc.pc \in { "idle", "message", "cancelled", "shown", "failed" }

\* openConfig(path): fileExists(path) is called.
openConfig(cmd, path) ==
    [ pc |-> "lstat", cmd |-> cmd, file |-> path, exists |-> FALSE,
      met |-> <<>>, caught |-> FALSE, n |-> oc.n + 1 ]

\* window.showInformationMessage(...) instead of opening anything.
informOnly(cmd) ==
    [ pc |-> "message", cmd |-> cmd, file |-> Undefined, exists |-> FALSE,
      met |-> <<>>, caught |-> FALSE, n |-> oc.n + 1 ]

openUserConfig ==
    /\ OpenerAtRest
    /\ oc.n < MaxOpens
    /\ IF ~IsSet(userConfig)
       THEN oc' = informOnly("user") /\ messages' = messages + 1
       ELSE oc' = openConfig("user", userConfig) /\ UNCHANGED messages
    /\ UNCHANGED docs
    /\ UNCHANGED << worldVars, fsVars, launchVars, complVars, parseVars, pathVars >>

\* "extension": workspaceConfig = rootPath && join(rootPath, ...).  "multi":
\* no folder, one folder, or a folder pick among several.
openWorkspaceConfig ==
    /\ OpenerAtRest
    /\ oc.n < MaxOpens
    /\ IF SeenFolders = <<>>
       THEN oc' = informOnly("workspace") /\ messages' = messages + 1
       ELSE /\ UNCHANGED messages
            /\ IF Len(SeenFolders) > 1
               THEN oc' = [ openConfig("workspace", Undefined) EXCEPT !.pc = "pickFolder" ]
               ELSE oc' = openConfig("workspace", workspaceConfigPath(SeenFolders[1].fsPath))
    /\ UNCHANGED docs
    /\ UNCHANGED << worldVars, fsVars, launchVars, complVars, parseVars, pathVars >>

\* window.showWorkspaceFolderPick() resolves with folder k, or with none.
showWorkspaceFolderPick(k) ==
    /\ oc.pc = "pickFolder"
    /\ k \in 0 .. Len(folders)
    /\ IF k = 0
       THEN oc' = [ oc EXCEPT !.pc = "cancelled" ]
       ELSE oc' = [ oc EXCEPT !.pc = "lstat", !.file = workspaceConfigPath(folders[k].fsPath) ]
    /\ UNCHANGED << docs, messages >>
    /\ UNCHANGED << worldVars, fsVars, launchVars, complVars, parseVars, pathVars >>

\* Only openWorkspaceConfig of "multi" has a catch(console.error).
\* met: the file statuses lstat and open met, kept for the record.
OpenRejected ==
    [ oc EXCEPT !.pc = "failed", !.met = Append(@, fs[oc.file]),
                !.caught = (rev = "multi" /\ oc.cmd = "workspace") ]

\* fileExists in openConfig: the lstat callback.
openConfigLstat ==
    /\ oc.pc = "lstat"
    /\ oc' = IF fs[oc.file] = "denied" THEN OpenRejected
             ELSE [ oc EXCEPT !.pc = "open", !.exists = (fs[oc.file] = "present"),
                              !.met = Append(@, fs[oc.file]) ]
    /\ UNCHANGED << docs, messages >>
    /\ UNCHANGED << worldVars, fsVars, launchVars, complVars, parseVars, pathVars >>

\* workspace.openTextDocument(exists ? Uri.file(path) : untitled) settles
\* and window.showTextDocument shows the document.
openConfigDocument ==
    /\ oc.pc = "open"
    /\ IF oc.exists /\ fs[oc.file] # "present"
       THEN oc' = OpenRejected /\ UNCHANGED docs
       ELSE /\ oc' = [ oc EXCEPT !.pc = "shown", !.met = Append(@, fs[oc.file]) ]
            /\ docs' = Append(docs, [ file |-> oc.file, n |-> oc.n,
                                      scheme |-> IF oc.exists THEN "file" ELSE "untitled" ])
    /\ UNCHANGED messages
    /\ UNCHANGED << worldVars, fsVars, launchVars, complVars, parseVars, pathVars >>

InitOpen ==
    /\ InitWorld
    /\ IdleLaunch /\ IdleOpen /\ IdleCompl /\ IdleParse /\ IdlePath

NextOpen ==
    \/ openUserConfig
    \/ openWorkspaceConfig
    \/ \E k \in 0 .. Len(folders) : showWorkspaceFolderPick(k)
    \/ openConfigLstat
    \/ openConfigDocument
    \/ \E f \in DOMAIN fs, st \in Status : FsChange(f, st)

SpecOpen == InitOpen /\ [][NextOpen]_vars

(***************************************************************************)
(* Completion Provider: the options cache.                                 *)
(***************************************************************************)
\* What options.json may hold when it is read.
Tables == { << "Host", "Port" >>, << "Host" >> }

\* /^\s*[^\s]*$/.test(prefix): white space, then at most one partial token.
RECURSIVE NoSpace(_)
NoSpace(p) == p = <<>> \/ (~IsSpace(Head(p)) /\ NoSpace(Tail(p)))

RECURSIVE Eligible(_)
Eligible(p) == IF p # <<>> /\ IsSpace(Head(p)) THEN Eligible(Tail(p)) ELSE NoSpace(p)

\* getOptions gone wrong: a new promise on every call.
getOptionsUncached ==
    options' = "pending" /\ reads' = reads + 1

\* return options || (options = new Promise(... readFile ...))
getOptions ==
    IF options # "unset"
    THEN UNCHANGED << options, reads >>
    ELSE options' = "pending" /\ reads' = reads + 1

provideCompletionItems(prefix) ==
    /\ Len(requests) < MaxRequests
    /\ IF Eligible(prefix)
       THEN /\ getOptions
            /\ requests' = Append(requests, [ state |-> "waiting", at |-> options, items |-> <<>> ])
       ELSE /\ UNCHANGED << options, reads >>
            /\ requests' = Append(requests, [ state |-> "undefined", at |-> options, items |-> <<>> ])
    /\ UNCHANGED table
    /\ UNCHANGED << worldVars, fsVars, launchVars, openVars, parseVars, pathVars >>

\* The readFile callback: err ? reject(err) : resolve(JSON.parse(content)).
readFileDone(err, content) ==
    /\ options = "pending"
    /\ IF err
       THEN options' = "rejected" /\ UNCHANGED table
       ELSE options' = "resolved" /\ table' = content
    /\ UNCHANGED << reads, requests >>
    /\ UNCHANGED << worldVars, fsVars, launchVars, openVars, parseVars, pathVars >>

\* A then-callback on the options promise runs: the options mapped to
\* items, and the snippet.
optionsSettled(r) ==
    /\ r \in 1 .. Len(requests)
    /\ requests[r].state = "waiting"
    /\ options \in { "resolved", "rejected" }
    /\ requests' = [ requests EXCEPT ![r] =
                       IF options = "resolved"
                       THEN [ @ EXCEPT !.state = "items", !.items = table \o << "Configure tunnel" >> ]
                       ELSE [ @ EXCEPT !.state = "rejected" ] ]
    /\ UNCHANGED << options, reads, table >>
    /\ UNCHANGED << worldVars, fsVars, launchVars, openVars, parseVars, pathVars >>

PrefixChars == { " ", "a" }

FixedWorld ==
    /\ rev = "multi"
    /\ env = NoEnv
    /\ folders = <<>>
    /\ fs = [ f \in Files |-> "missing" ]

InitCompl ==
    /\ FixedWorld
    /\ IdleLaunch /\ IdleOpen /\ IdleCompl /\ IdleParse /\ IdlePath

NextCompl ==
    \/ \E prefix \in SeqsUpTo(PrefixChars, MaxPrefix) : provideCompletionItems(prefix)
    \/ \E err \in BOOLEAN, content \in Tables : readFileDone(err, content)
    \/ \E r \in 1 .. Len(requests) : optionsSettled(r)

SpecCompl == InitCompl /\ [][NextCompl]_vars

(***************************************************************************)
(* The host parser and the path shortener as functions of their input.     *)
(***************************************************************************)
Lexemes == { "Host", " ", "\n", "a", "b" }

\* loadHosts' then-callback run on text.
Parse ==
    /\ ~hosts.done
    /\ hosts' = [ done |-> TRUE, labels |-> ParseLabels(text) ]
    /\ UNCHANGED text
    /\ UNCHANGED << worldVars, fsVars, launchVars, openVars, complVars, pathVars >>

InitParse ==
    /\ FixedWorld
    /\ text \in SeqsUpTo(Lexemes, MaxLen)
    /\ hosts = [ done |-> FALSE, labels |-> <<>> ]
    /\ IdleLaunch /\ IdleOpen /\ IdleCompl /\ IdlePath

NextParse == Parse

SpecParse == InitParse /\ [][NextParse]_vars

\* Homes known by another variable than HOME, more homes, and folders in
\* either order.
PathEnvs == Envs \cup { [ NoEnv EXCEPT !.USERPROFILE = << "home", "u" >> ],
                        [ NoEnv EXCEPT !.HOMEPATH = << "home", "u" >> ],
                        [ NoEnv EXCEPT !.HOME = << "ws", "p" >> ],
                        [ NoEnv EXCEPT !.HOME = << "ws" >> ] }

PathWorkspaces == Workspaces \cup { << FolderW >>, << FolderW, FolderP >> }

\* The paths shortened: the config files, and a file elsewhere.
PathInputs == Files \cup { << "etc", "ssh", "ssh_config" >> }

\* shortPath (relativize) run on spIn.
ShortenPath ==
    /\ ~spOut.done
    /\ spOut' = [ done |-> TRUE, str |-> Shorten(spIn) ]
    /\ UNCHANGED spIn
    /\ UNCHANGED << worldVars, fsVars, launchVars, openVars, complVars, parseVars >>

InitPath ==
    /\ rev \in Revs
    /\ env \in PathEnvs
    /\ folders \in PathWorkspaces
    /\ fs = [ f \in Files |-> "present" ]
    /\ spIn \in PathInputs
    /\ spOut = [ done |-> FALSE, str |-> "" ]
    /\ IdleLaunch /\ IdleOpen /\ IdleCompl /\ IdleParse

NextPath == ShortenPath

SpecPath == InitPath /\ [][NextPath]_vars

(***************************************************************************)
(* Properties.                                                             *)
(***************************************************************************)
Terminals == 1 .. Len(terminals)

\* The terminals the current launch invocation created.
Mine == { n \in Terminals : terminals[n].launch = launches }

\* C1: with onData offered, the ssh command is sent at most once whatever
\* the interleaving of data events and the timer, and it has been sent,
\* once, when the timer has fired.
C1_SentExactlyOnce ==
    \A n \in Terminals :
        terminals[n].onData =>
            /\ Len(terminals[n].sendText) <= 1
            /\ terminals[n].sent <=> Len(terminals[n].sendText) = 1
            /\ terminals[n].timer = "fired" =>
                   terminals[n].sendText = << sendLaunch(terminals[n].host) >>

\* Data events came before the timer fired, and the command went out once.
C1_Witness ==
    \E n \in Terminals :
        /\ terminals[n].onData
        /\ terminals[n].data >= 2
        /\ terminals[n].timer = "fired"
        /\ Len(terminals[n].sendText) = 1

\* C2 as claimed: a config location whose file is missing when lstat or the
\* read that follows examines it resolves with no hosts, never rejects.
C2_MissingNeverAnError ==
    \A i \in DOMAIN load :
        (observed[i] # <<>> /\ Last(observed[i]) = "missing") =>
            load[i] = "done" /\ res[i] = <<>>

\* The command the claim gives for a host: the config path relative to the
\* owning workspace folder after -F, nothing but the alias for a user host.
ClaimedCommand(host) ==
    IF host.config.folder = 0
    THEN "ssh " \o LabelStr(host.label)
    ELSE "ssh -F "
         \o Render(relative(SeenFolders[host.config.folder].fsPath, host.config.file))
         \o " " \o LabelStr(host.label)

\* C3 as claimed: every text a terminal receives is the claimed command of
\* its host; in "multi" the working directory is the owning folder or unset.
C3_CommandText ==
    \A n \in Terminals :
        /\ \A k \in 1 .. Len(terminals[n].sendText) :
               terminals[n].sendText[k] = ClaimedCommand(terminals[n].host)
        /\ rev = "multi" =>
               terminals[n].cwd =
                   IF terminals[n].host.config.folder = 0 THEN Undefined
                   ELSE folders[terminals[n].host.config.folder].fsPath

\* C4 as claimed: once lstat of any config file failed with an error other
\* than ENOENT, the invocation is aborted (no picker, no terminal) and the
\* error has been logged by the command's handler.
C4_OtherErrorAbortsAndIsLogged ==
    \A i \in DOMAIN load :
        (observed[i] # <<>> /\ observed[i][1] = "denied") =>
            /\ pc = "failed"
            /\ picker = <<>>
            /\ Mine = {}
            /\ launches \in logged

\* How often h occurs in a list.
Count(list, h) == Cardinality({ k \in 1 .. Len(list) : list[k] = h })

\* The hosts config location i should contribute: those of its file when
\* lstat and the read both found it, none when lstat found it missing.
Expected(i) ==
    IF observed[i] = << "present", "present" >> THEN loadHosts(locs[i]) ELSE <<>>

ExpectedAll == Concat([ i \in 1 .. Len(locs) |-> Expected(i) ])

LocationOf(h) == CHOOSE i \in 1 .. Len(locs) : locs[i] = h.config

\* C5: whatever the order the reads complete in, the picker holds every
\* host of every config file that was read as often as the file declares
\* it and nothing else; labels never decrease, and hosts of equal label
\* keep config-location order.
C5_PickerList ==
    pc \in { "picker", "done", "cancelled" } =>
        /\ LET all == ExpectedAll IN
           /\ Len(picker) = Len(all)
           /\ \A k \in 1 .. Len(picker) :
                  Count(picker, picker[k]) = Count(all, picker[k])
        /\ \A a, b \in 1 .. Len(picker) :
               a < b =>
                   /\ localeCompare(picker[a].label, picker[b].label) <= 0
                   /\ localeCompare(picker[a].label, picker[b].label) = 0 =>
                          LocationOf(picker[a]) <= LocationOf(picker[b])

\* The picker is up, a later location's read completed before an earlier
\* one's, and two locations declare the same alias.
C5_Witness ==
    /\ pc = "picker"
    /\ \E a, b \in 1 .. Len(settled) : a < b /\ settled[a] > settled[b]
    /\ \E a, b \in 1 .. Len(picker) :
           /\ picker[a].label = picker[b].label
           /\ picker[a].config # picker[b].config

\* C6: the current invocation has a terminal only once the picker resolved
\* with a host, and then exactly one, for that host; a cancelled picker
\* leaves no terminal, text, timer or data callback and no error; no
\* invocation ever has two terminals.
C6_TerminalOnlyAfterSelection ==
    /\ pc \in { "idle", "loading", "picker", "failed", "cancelled" } => Mine = {}
    /\ pc = "cancelled" => launches \notin (logged \cup unhandled)
    /\ pc = "done" =>
           /\ picked # NoHost
           /\ Cardinality(Mine) = 1
           /\ \A n \in Mine : terminals[n].host = picked
    /\ \A n, m \in Terminals : terminals[n].launch = terminals[m].launch => n = m
    /\ \A n \in Terminals : terminals[n].launch \in 1 .. launches

\* The picker offered hosts and the user cancelled.
C6_Witness ==
    /\ pc = "cancelled"
    /\ picker # <<>>
    /\ Mine = {}

Requests == 1 .. Len(requests)

\* C7: options.json is read at most once, by the first getOptions call;
\* every caller served was served the one loaded table; a rejected load
\* stays rejected; no caller waits on anything but that one promise.
C7_LoadedOnce ==
    /\ reads <= 1
    /\ reads = 0 <=> options = "unset"
    /\ \A r \in Requests :
           /\ requests[r].state = "waiting" => options # "unset"
           /\ requests[r].state = "rejected" => options = "rejected"
           /\ requests[r].state = "items" =>
                  /\ options = "resolved"
                  /\ requests[r].items = table \o << "Configure tunnel" >>
    /\ \A r, q \in Requests :
           (requests[r].state = "items" /\ requests[q].state = "items") =>
               requests[r].items = requests[q].items

\* Three callers were served: the one that started the read, one that came
\* while it was in flight, and one that came after it completed.
C7_Witness ==
    \E r, q, u \in Requests :
        /\ requests[r].at = "unset" /\ requests[r].state = "items"
        /\ requests[q].at = "pending" /\ requests[q].state = "items"
        /\ requests[u].at = "resolved" /\ requests[u].state = "items"

\* The lines of a text: the runs between line breaks.
RECURSIVE Lines(_, _)
Lines(t, line) ==
    IF t = <<>> THEN << line >>
    ELSE IF Head(t) = "\n" THEN << line >> \o Lines(Tail(t), <<>>)
    ELSE Lines(Tail(t), Append(line, Head(t)))

\* What the claim gives for one line: the first token after "Host" and
\* white space on that line, if there is one.
ClaimedLineLabels(line) ==
    IF /\ Len(line) >= 3
       /\ line[1] = "Host"
       /\ IsSpace(line[2])
       /\ RunEnd(line, 2, TRUE) < Len(line)
    THEN LET from == RunEnd(line, 2, TRUE) + 1
         IN  << SubSeq(line, from, RunEnd(line, from, FALSE)) >>
    ELSE <<>>

ClaimedLabels(t) ==
    LET ls == Lines(t, <<>>)
    IN  Concat([ i \in 1 .. Len(ls) |-> ClaimedLineLabels(ls[i]) ])

\* C8 as claimed: the parser returns one entry per line that begins with
\* Host, white space and a token on that line, and nothing for other lines.
C8_OneEntryPerHostLine ==
    hosts.done => hosts.labels = ClaimedLabels(text)

\* The candidates the claim lists after the path itself: the home-relative
\* form for the home the Config Locator uses, and the folder's name joined
\* with the folder-relative path, per folder.
ClaimedCandidates(path) ==
    (IF IsSet(userHome) THEN << "~/" \o Render(relative(userHome, path)) >> ELSE <<>>)
    \o [ i \in 1 .. Len(folders) |->
           JoinStr(<< folders[i].name >>, relative(folders[i].fsPath, path)) ]

\* C9 as claimed: shortPath returns the first shortest of the claimed
\* candidates.
C9_ShortestCandidate ==
    (spOut.done /\ rev = "multi") =>
        spOut.str = ReduceMin(AbsStr(spIn), ClaimedCandidates(spIn))

\* The documents the opener's current invocation has shown.
Shown == { d \in 1 .. Len(docs) : docs[d].n = oc.n }

\* C10 as claimed: the opener never fails over a missing file; when it is
\* through, one document is shown, the file if it existed at the check and
\* an untitled buffer with its path otherwise; without a base directory a
\* message and nothing else; after a cancelled folder pick nothing.
C10_OpenerNeverFailsOnMissing ==
    /\ oc.pc = "failed" =>
           \A k \in 1 .. Len(oc.met) : oc.met[k] # "missing"
    /\ oc.pc = "shown" =>
           /\ Cardinality(Shown) = 1
           /\ \A d \in Shown :
                  /\ docs[d].file = oc.file
                  /\ docs[d].scheme = IF oc.met[1] = "present" THEN "file" ELSE "untitled"
    /\ oc.pc \in { "message", "cancelled" } => Shown = {} /\ oc.met = <<>>

====
